---- MODULE Spec2Model ----
(***************************************************************************)
(* Menstrual-cycle phase calculator, the two generators built on it and    *)
(* their API routes (independent-queens-backend).                          *)
(*                                                                         *)
(* Strings the program parses are modelled by their content: an answer is  *)
(* a record that is either free text (kind "text") or a string of the      *)
(* form "<y>-<m>-<d>" (kind "ymd"), so that strptime/strftime are          *)
(* computed, not assumed.  The clock counts ticks; TicksPerDay ticks make  *)
(* one calendar day, tick n*TicksPerDay being midnight of ordinal day n.   *)
(***************************************************************************)
EXTENDS Integers, Sequences, FiniteSets, TLC

VARIABLES
    clock,          \* wall clock, in ticks
    import_time,    \* clock value when the model classes were defined
    qa_pairs,       \* user.qa_pairs as stored
    pc,             \* "idle" | "await_openai" | "done"
    endpoint,       \* route being served
    reads,          \* clock readings taken by calculate_phase in this request
    phase_call,     \* calculate_phase's response and call frames in this request
    prompt,         \* prompt handed to the text-generation collaborator
    openai_calls,   \* calls to test_completion made in this request
    reply,          \* what test_completion answered
    svc_error,      \* exception leaving the service method ("None": it returned)
    body,           \* value the service method returned
    http_status,    \* status the route answers with
    uuid_next,      \* uuid4 values drawn so far
    user_doc,       \* the stored user document: events and updated_at
    accepts,        \* the accept-event requests being served, by connection
    hf,             \* the analyze_emotions call in progress
    sessions        \* the requests served concurrently, by user

vars == <<clock, import_time, qa_pairs, pc, endpoint, reads, phase_call, prompt,
          openai_calls, reply, svc_error, body, http_status, uuid_next,
          user_doc, accepts, hf, sessions>>

None == "None"

(***************************************************************************)
(* Bounds of the model                                                     *)
(***************************************************************************)
TicksPerDay == 2
MaxDaysAgo == 60
MaxDaysAhead == 2
MaxClockTicks == 3
MaxDrift == 1
MaxFacts == 3

(***************************************************************************)
(* Question strings                                                        *)
(***************************************************************************)
QDate == "When was the first day of your last period?"
QDuration == "How long does your period typically last?"
QMood == "How would you describe your mood recently?"
QConfidence == "Do you feel confident about your knowledge about your menstrual health"
QOther == "What is your favourite colour?"

(***************************************************************************)
(* Answers                                                                 *)
(***************************************************************************)
Text(s) == [kind |-> "text", text |-> s, y |-> 0, m |-> 0, d |-> 0]
Ymd(y, m, d) == [kind |-> "ymd", text |-> "", y |-> y, m |-> m, d |-> d]
NoneAnswer == [kind |-> "none", text |-> "", y |-> 0, m |-> 0, d |-> 0]

QAPair(q, a) == [question |-> q, answer |-> a]

\* Python truthiness of an Optional[str]: None and "" are falsy.
Falsy(a) == a.kind = "none" \/ (a.kind = "text" /\ a.text = "")

(***************************************************************************)
(* Proleptic Gregorian calendar, as datetime computes it                   *)
(***************************************************************************)
IsLeap(y) == y % 4 = 0 /\ (y % 100 # 0 \/ y % 400 = 0)

DaysInMonthTable == <<31, 28, 31, 30, 31, 30, 31, 31, 30, 31, 30, 31>>
DaysBeforeMonthTable == <<0, 31, 59, 90, 120, 151, 181, 212, 243, 273, 304, 334>>

DaysInMonth(y, m) == IF m = 2 /\ IsLeap(y) THEN 29 ELSE DaysInMonthTable[m]

DaysBeforeMonth(y, m) ==
    DaysBeforeMonthTable[m] + (IF m > 2 /\ IsLeap(y) THEN 1 ELSE 0)

DaysBeforeYear(y) ==
    LET p == y - 1 IN p * 365 + (p \div 4) - (p \div 100) + (p \div 400)

Ymd2Ord(y, m, d) == DaysBeforeYear(y) + DaysBeforeMonth(y, m) + d

Ord2Ymd(ord) ==
    LET n0 == ord - 1
        n400 == n0 \div 146097
        r400 == n0 % 146097
        n100 == r400 \div 36524
        r100 == r400 % 36524
        n4 == r100 \div 1461
        r4 == r100 % 1461
        n1 == r4 \div 365
        n == r4 % 365
        year == n400 * 400 + 1 + n100 * 100 + n4 * 4 + n1
    IN  IF n1 = 4 \/ n100 = 4
        THEN [y |-> year - 1, m |-> 12, d |-> 31]
        ELSE LET leap == n1 = 3 /\ (n4 # 24 \/ n100 = 3)
                 month0 == (n + 50) \div 32
                 prec0 == DaysBeforeMonthTable[month0]
                            + (IF month0 > 2 /\ leap THEN 1 ELSE 0)
                 month == IF prec0 > n THEN month0 - 1 ELSE month0
                 prec == IF prec0 > n
                         THEN prec0 - (DaysInMonthTable[month]
                                        + (IF month = 2 /\ leap THEN 1 ELSE 0))
                         ELSE prec0
             IN  [y |-> year, m |-> month, d |-> n - prec + 1]

(***************************************************************************)
(* strptime(answer, "%Y-%m-%d") and strftime("%Y-%m-%d")                   *)
(***************************************************************************)
StrptimeOkAnyDay(a) ==
    /\ a.kind = "ymd"
    /\ a.y \in 1..9999
    /\ a.m \in 1..12
    /\ a.d \in 1..31

\* The answer parses iff it is year-month-day text naming a real calendar day.
StrptimeOk(a) ==
    /\ a.kind = "ymd"
    /\ a.y \in 1..9999
    /\ a.m \in 1..12
    /\ a.d \in 1..DaysInMonth(a.y, a.m)

\* Midnight of the parsed day, as its ordinal; ValueError when it does not parse.
Strptime(a) ==
    IF StrptimeOk(a)
    THEN [error |-> None, ord |-> Ymd2Ord(a.y, a.m, a.d)]
    ELSE [error |-> "ValueError", ord |-> 0]

Strftime(ord) == LET c == Ord2Ymd(ord) IN Ymd(c.y, c.m, c.d)

\* Calendar day of a clock reading.
DateOf(now) == now \div TicksPerDay

(***************************************************************************)
(* MenstrualHealthService.check_required_data                              *)
(***************************************************************************)
NoDataMessage == "No menstrual health data available"
DateMissingMessage == "Last period date not provided"
DurationMissingMessage == "Period duration not provided"
InvalidDateMessage == "Invalid date format for last period"

Max(S) == CHOOSE x \in S : \A z \in S : z <= x

AnswerOfFirstFact(qa, q) ==
    IF qa # <<>> /\ qa[1].question = q THEN qa[1].answer ELSE NoneAnswer

\* Value left in the loop variable for question q: the answer of the last fact
\* asking q, None when no fact asks it.
LastAnswer(qa, q) ==
    LET idx == {i \in 1..Len(qa) : qa[i].question = q}
    IN  IF idx = {} THEN NoneAnswer ELSE qa[Max(idx)].answer

CheckRequiredDataSwapped(qa) ==
    IF Len(qa) = 0 THEN [ok |-> FALSE, message |-> NoDataMessage]
    ELSE IF Falsy(LastAnswer(qa, QDuration))
         THEN [ok |-> FALSE, message |-> DurationMissingMessage]
    ELSE IF Falsy(LastAnswer(qa, QDate))
         THEN [ok |-> FALSE, message |-> DateMissingMessage]
    ELSE [ok |-> TRUE, message |-> None]

CheckRequiredDataWrongMessage(qa) ==
    IF Len(qa) = 0 THEN [ok |-> FALSE, message |-> NoDataMessage]
    ELSE IF Falsy(LastAnswer(qa, QDate))
         THEN [ok |-> FALSE, message |-> DurationMissingMessage]
    ELSE IF Falsy(LastAnswer(qa, QDuration))
         THEN [ok |-> FALSE, message |-> DateMissingMessage]
    ELSE [ok |-> TRUE, message |-> None]

CheckRequiredDataDateOnly(qa) ==
    IF Len(qa) = 0 THEN [ok |-> FALSE, message |-> NoDataMessage]
    ELSE IF Falsy(LastAnswer(qa, QDate))
         THEN [ok |-> FALSE, message |-> DateMissingMessage]
    ELSE [ok |-> TRUE, message |-> None]

CheckRequiredData(qa) ==
    IF Len(qa) = 0 THEN [ok |-> FALSE, message |-> NoDataMessage]
    ELSE IF Falsy(LastAnswer(qa, QDate))
         THEN [ok |-> FALSE, message |-> DateMissingMessage]
    ELSE IF Falsy(LastAnswer(qa, QDuration))
         THEN [ok |-> FALSE, message |-> DurationMissingMessage]
    ELSE [ok |-> TRUE, message |-> None]

(***************************************************************************)
(* MenstrualHealthService.calculate_phase                                  *)
(***************************************************************************)
Phases == {"menstrual", "follicular", "ovulation", "luteal"}

\* A PhaseResponse as the service builds it; raised names the exception that
\* left calculate_phase instead of a response.
PhaseResponse(phase, has_data, message) ==
    [phase |-> phase, has_data |-> has_data, message |-> message, raised |-> None]

Raised(exc) ==
    [phase |-> None, has_data |-> FALSE, message |-> None, raised |-> exc]

MissingDataResponse(message) == PhaseResponse(None, FALSE, message)

InvalidDateResponseHasData == PhaseResponse(None, TRUE, InvalidDateMessage)

InvalidDateResponse == PhaseResponse(None, FALSE, InvalidDateMessage)

SuccessResponse(phase) == PhaseResponse(phase, TRUE, None)

RECURSIVE ScanFactsElse(_, _, _, _)
ScanFactsElse(qa, i, last_period_date, period_duration) ==
    IF i > Len(qa)
    THEN [invalid |-> FALSE, last_period_date |-> last_period_date,
          period_duration |-> period_duration]
    ELSE IF qa[i].question = QDate
         THEN LET p == Strptime(qa[i].answer)
              IN  IF p.error # None
                  THEN [invalid |-> TRUE, last_period_date |-> last_period_date,
                        period_duration |-> period_duration]
                  ELSE ScanFactsElse(qa, i + 1, [isnone |-> FALSE, ord |-> p.ord],
                                     period_duration)
    ELSE ScanFactsElse(qa, i + 1, last_period_date, qa[i].answer)

\* The scanning loop: the first date answer that does not parse ends the call,
\* otherwise the last date and the last duration answer are kept.
RECURSIVE ScanFacts(_, _, _, _)
ScanFacts(qa, i, last_period_date, period_duration) ==
    IF i > Len(qa)
    THEN [invalid |-> FALSE, last_period_date |-> last_period_date,
          period_duration |-> period_duration]
    ELSE IF qa[i].question = QDate
         THEN LET p == Strptime(qa[i].answer)
              IN  IF p.error # None
                  THEN [invalid |-> TRUE, last_period_date |-> last_period_date,
                        period_duration |-> period_duration]
                  ELSE ScanFacts(qa, i + 1, [isnone |-> FALSE, ord |-> p.ord],
                                 period_duration)
    ELSE IF qa[i].question = QDuration
         THEN ScanFacts(qa, i + 1, last_period_date, qa[i].answer)
    ELSE ScanFacts(qa, i + 1, last_period_date, period_duration)

DaysSinceRemembering(now, ord) ==
    (now - ord * TicksPerDay) \div TicksPerDay + Len(phase_call.frames)

\* (datetime.now() - last_period_date).days: timedelta.days is the floor.
DaysSince(now, ord) == (now - ord * TicksPerDay) \div TicksPerDay

PeriodLengthShifted(period_duration) ==
    IF period_duration.kind # "text" THEN 5
    ELSE CASE period_duration.text = "3-5" -> 5
           [] period_duration.text = "5-7" -> 7
           [] period_duration.text = "7-10" -> 10
           [] period_duration.text = "10+" -> 10
           [] OTHER -> 5

PeriodLengthUnclamped(period_duration) ==
    IF period_duration.kind # "text" THEN 5
    ELSE CASE period_duration.text = "3-5" -> 4
           [] period_duration.text = "5-7" -> 6
           [] period_duration.text = "7-10" -> 8
           [] period_duration.text = "10+" -> 15
           [] OTHER -> 5

PeriodLength(period_duration) ==
    IF period_duration.kind # "text" THEN 5
    ELSE CASE period_duration.text = "3-5" -> 4
           [] period_duration.text = "5-7" -> 6
           [] period_duration.text = "7-10" -> 8
           [] period_duration.text = "10+" -> 10
           [] OTHER -> 5

PhaseBranchNonNegative(days_since_period, period_length) ==
    LET follicular_length == 14 - period_length
        ovulation_length == 3
    IN  IF days_since_period < 0 THEN "else"
        ELSE IF days_since_period < period_length THEN "menstrual"
        ELSE IF days_since_period < period_length + follicular_length
             THEN "follicular"
        ELSE IF days_since_period
                    < period_length + follicular_length + ovulation_length
             THEN "ovulation"
        ELSE IF days_since_period < 28 THEN "luteal"
        ELSE "else"

\* The if/elif chain; "else" is the branch that normalizes to the current cycle.
PhaseBranchInclusive(days_since_period, period_length) ==
    LET follicular_length == 14 - period_length
        ovulation_length == 3
    IN  IF days_since_period <= period_length THEN "menstrual"
        ELSE IF days_since_period <= period_length + follicular_length
             THEN "follicular"
        ELSE IF days_since_period
                    <= period_length + follicular_length + ovulation_length
             THEN "ovulation"
        ELSE IF days_since_period < 28 THEN "luteal"
        ELSE "else"

PhaseBranch(days_since_period, period_length) ==
    LET follicular_length == 14 - period_length
        ovulation_length == 3
    IN  IF days_since_period < period_length THEN "menstrual"
        ELSE IF days_since_period < period_length + follicular_length
             THEN "follicular"
        ELSE IF days_since_period
                    < period_length + follicular_length + ovulation_length
             THEN "ovulation"
        ELSE IF days_since_period < 28 THEN "luteal"
        ELSE "else"

CurrentCycleDayOffByOne(days_since_period) == days_since_period % 29

CurrentCycleDayFortnight(days_since_period) == days_since_period % 14

CurrentCycleDay(days_since_period) == days_since_period % 28

NormalizedFactsWithExtra(now, current_cycle_day, period_duration) ==
    << QAPair(QDate, Strftime(DateOf(now) - current_cycle_day)),
       QAPair(QDuration, period_duration),
       QAPair(QOther, Text("blue")) >>

\* The two-fact list built for the recursive call.
NormalizedFacts(now, current_cycle_day, period_duration) ==
    << QAPair(QDate, Strftime(DateOf(now) - current_cycle_day)),
       QAPair(QDuration, period_duration) >>

\* k-th and later clock readings of a call; the last reading repeats.
Reading(clk, k) == clk[IF k <= Len(clk) THEN k ELSE Len(clk)]
LaterReadings(clk, k) ==
    IF k < Len(clk) THEN SubSeq(clk, k + 1, Len(clk)) ELSE <<clk[Len(clk)]>>

Frame(qa, line, days, len, dur) ==
    [qa_pairs |-> qa, line |-> line, days_since_period |-> days,
     period_length |-> len, period_duration |-> dur]

\* calculate_phase(qa) reading the clock as clk says.  The result holds the
\* response and one frame per (recursive) call, outermost first.
RECURSIVE CalculatePhase(_, _)
CalculatePhase(qa, clk) ==
    LET chk == CheckRequiredData(qa) IN
    IF ~chk.ok
    THEN [resp |-> MissingDataResponse(chk.message),
          frames |-> <<Frame(qa, 40, 0, 0, NoneAnswer)>>]
    ELSE
    LET scan == ScanFacts(qa, 1, [isnone |-> TRUE, ord |-> 0], NoneAnswer) IN
    IF scan.invalid
    THEN [resp |-> InvalidDateResponse,
          frames |-> <<Frame(qa, 51, 0, 0, scan.period_duration)>>]
    ELSE IF scan.last_period_date.isnone
    THEN [resp |-> Raised("TypeError"),
          frames |-> <<Frame(qa, 60, 0, 0, scan.period_duration)>>]
    ELSE
    LET days_since_period == DaysSince(Reading(clk, 1), scan.last_period_date.ord)
        period_length == PeriodLength(scan.period_duration)
        branch == PhaseBranch(days_since_period, period_length)
    IN  IF branch # "else"
        THEN [resp |-> SuccessResponse(branch),
              frames |-> <<Frame(qa, 98, days_since_period, period_length,
                                 scan.period_duration)>>]
        ELSE LET sub == CalculatePhase(
                            NormalizedFacts(Reading(clk, 2),
                                            CurrentCycleDay(days_since_period),
                                            scan.period_duration),
                            LaterReadings(clk, 2))
             IN  [resp |-> sub.resp,
                  frames |-> <<Frame(qa, 83, days_since_period, period_length,
                                     scan.period_duration)>> \o sub.frames]

NoBody == [kind |-> None]

(***************************************************************************)
(* Exceptions                                                              *)
(***************************************************************************)
NoError == [type |-> None, message |-> "", status |-> 0]
Exception(type, message) == [type |-> type, message |-> message, status |-> 0]
HTTPException(status, detail) ==
    [type |-> "HTTPException", message |-> detail, status |-> status]

\* Exception classes an `except ValueError` clause catches.
IsValueError(e) == e.type \in {"ValueError", "JSONDecodeError", "ValidationError"}

(***************************************************************************)
(* OpenAIService.test_completion and json.loads                            *)
(***************************************************************************)
\* A reply of the collaborator: kind "raise" is test_completion failing with
\* its HTTPException, "text" is content that is no JSON document, "json" is a
\* JSON object.
OpenAIError == HTTPException(500, "Error getting completion from OpenAI")

JsonLoads(r) ==
    IF r.kind = "json"
    THEN [error |-> NoError, data |-> r]
    ELSE [error |-> Exception("JSONDecodeError", "Expecting value"), data |-> r]

(***************************************************************************)
(* MenstrualRecommendationsService                                         *)
(***************************************************************************)
RecKeys == <<"diet_recommendations", "exercise_recommendations",
             "symptoms_to_watch", "affirmation">>

\* str.lower on the answers of the input space.
Lower(s) ==
    CASE s = "Yes" -> "yes"
      [] s = "YES" -> "yes"
      [] s = "Wellness" -> "wellness"
      [] s = "REST" -> "rest"
      [] OTHER -> s

\* _create_prompt: the last mood fact, "neutral" without one.
Mood(qa) ==
    LET a == LastAnswer(qa, QMood)
    IN  IF a.kind = "none" THEN "neutral" ELSE a.text

Min(S) == CHOOSE x \in S : \A z \in S : x <= z

HasConfidenceCaseSensitive(qa) ==
    LET idx == {i \in 1..Len(qa) : qa[i].question = QConfidence}
    IN  IF idx = {} THEN FALSE ELSE qa[Min(idx)].answer.text = "yes"

\* The loop over the confidence fact stops at the first one.
HasConfidence(qa) ==
    LET idx == {i \in 1..Len(qa) : qa[i].question = QConfidence}
    IN  IF idx = {} THEN FALSE ELSE Lower(qa[Min(idx)].answer.text) = "yes"

RecommendationsPrompt(qa, resp) ==
    [kind |-> "recommendations", phase |-> resp.phase, mood |-> Mood(qa),
     has_confidence |-> HasConfidence(qa)]

InsufficientDataNever(resp) == FALSE

\* `if not phase_response.has_data`
InsufficientData(resp) == ~resp.has_data

InsufficientRecommendations ==
    Exception("ValueError", "Insufficient menstrual data to generate recommendations")
FailedToParseRecommendations ==
    Exception("ValueError", "Failed to parse recommendations")

\* First key of keys (in the order the code reads them) the object lacks.
FirstMissing(keys, present) ==
    LET idx == {i \in 1..Len(keys) : keys[i] \notin present}
    IN  IF idx = {} THEN None ELSE keys[Min(idx)]

\* get_recommendations from the collaborator's answer on: what it raises, or
\* the MenstrualRecommendations it returns.
RecommendationsOutcome(resp, r) ==
    IF r.kind = "raise" THEN [error |-> OpenAIError, value |-> NoBody]
    ELSE LET j == JsonLoads(r) IN
    IF j.error.type = "JSONDecodeError"
    THEN [error |-> FailedToParseRecommendations, value |-> NoBody]
    ELSE LET missing == FirstMissing(RecKeys, j.data.keys) IN
    IF missing # None
    THEN [error |-> Exception("KeyError", missing), value |-> NoBody]
    ELSE IF ~j.data.typed
    THEN [error |-> Exception("ValidationError", "validation error for MenstrualRecommendations"),
          value |-> NoBody]
    ELSE [error |-> NoError,
          value |-> [kind |-> "MenstrualRecommendations",
                     phase |-> resp.phase,
                     diet_recommendations |-> j.data.items,
                     exercise_recommendations |-> j.data.items,
                     symptoms_to_watch |-> j.data.items,
                     affirmation |-> 1,
                     generated_at |-> import_time]]

(***************************************************************************)
(* EventSuggestionService                                                  *)
(***************************************************************************)
EventKeys == <<"type", "title", "start", "end", "reason">>

DefaultColor == "#607D8B"

EventColorShifted(type) ==
    CASE type = "wellness" -> "#2196F3"
      [] type = "productivity" -> "#9C27B0"
      [] type = "rest" -> "#FF9800"
      [] type = "social" -> "#795548"
      [] type = "learning" -> "#4CAF50"
      [] OTHER -> DefaultColor

\* EVENT_COLORS.get(type, default)
EventColor(type) ==
    CASE type = "wellness" -> "#4CAF50"
      [] type = "productivity" -> "#2196F3"
      [] type = "rest" -> "#9C27B0"
      [] type = "social" -> "#FF9800"
      [] type = "learning" -> "#795548"
      [] OTHER -> DefaultColor

InsufficientSuggestions ==
    Exception("ValueError", "Insufficient menstrual data to generate suggestions")
FailedToParseSuggestions ==
    Exception("ValueError", "Failed to parse event suggestions")

EventsPrompt(qa, resp) ==
    [kind |-> "suggested-events", phase |-> resp.phase, mood |-> None,
     has_confidence |-> FALSE]

SuggestedEvent(item, uuid) ==
    [id |-> [prefix |-> "sugg_", uuid |-> uuid],
     title |-> item.title, start |-> item.start, end |-> item.end,
     color |-> EventColor(Lower(item.type)), type |-> item.type,
     reason |-> item.reason]

\* The conversion loop from item i on, uuid4 values counted from uuid: the
\* first item lacking a key ends it with KeyError, its uuid already drawn.
RECURSIVE ConvertEvents(_, _, _, _)
ConvertEvents(items, i, uuid, suggested_events) ==
    IF i > Len(items)
    THEN [error |-> NoError, value |-> suggested_events, uuid |-> uuid]
    ELSE LET missing == FirstMissing(EventKeys, items[i].keys) IN
         IF missing # None
         THEN [error |-> Exception("KeyError", missing), value |-> <<>>,
               uuid |-> uuid + 1]
         ELSE ConvertEvents(items, i + 1, uuid + 1,
                            Append(suggested_events,
                                   SuggestedEvent(items[i], uuid + 1)))

\* get_suggested_events from the collaborator's answer on.
EventsOutcome(resp, r, uuid) ==
    IF r.kind = "raise"
    THEN [error |-> OpenAIError, value |-> NoBody, uuid |-> uuid]
    ELSE LET j == JsonLoads(r) IN
    IF j.error.type = "JSONDecodeError"
    THEN [error |-> FailedToParseSuggestions, value |-> NoBody, uuid |-> uuid]
    ELSE IF "suggested_events" \notin j.data.keys
    THEN [error |-> Exception("KeyError", "suggested_events"), value |-> NoBody,
          uuid |-> uuid]
    ELSE LET c == ConvertEvents(j.data.items, 1, uuid, <<>>) IN
         IF c.error.type # None
         THEN [error |-> c.error, value |-> NoBody, uuid |-> c.uuid]
         ELSE [error |-> NoError,
               value |-> [kind |-> "SuggestedEvents", events |-> c.value],
               uuid |-> c.uuid]

(***************************************************************************)
(* Exception handling of the routes                                        *)
(***************************************************************************)
RouteStatus(e) ==
    IF e.type = None THEN 200
    ELSE IF IsValueError(e) THEN 400
    ELSE IF e.type = "HTTPException" THEN e.status
    ELSE 500

(***************************************************************************)
(* Inputs                                                                  *)
(***************************************************************************)
BaseDay == Ymd2Ord(2024, 3, 1)
ClockStart == BaseDay * TicksPerDay
ClockEnd == ClockStart + MaxClockTicks

DurationLabels == {"3-5", "5-7", "7-10", "10+", "2-3", ""}

\* Real days around BaseDay, and year-month-day strings naming no real day.
SweepDates == {Strftime(BaseDay - k) : k \in (0 - MaxDaysAhead)..MaxDaysAgo}
UnrealDates == {Ymd(2023, 2, 29), Ymd(2024, 13, 1), Ymd(2024, 4, 31)}

SweepLists ==
    {<<QAPair(QDate, a), QAPair(QDuration, Text(l))>> :
        a \in SweepDates \cup UnrealDates, l \in DurationLabels}

SmallFacts ==
    { QAPair(QDate, Strftime(BaseDay - 3)),
      QAPair(QDate, Strftime(BaseDay - 44)),
      QAPair(QDate, Text("Feb 2024")),
      QAPair(QDate, Text("")),
      QAPair(QDuration, Text("3-5")),
      QAPair(QDuration, Text("")),
      QAPair(QMood, Text("tired")),
      QAPair(QOther, Text("blue")) }

SmallLists == UNION {[1..n -> SmallFacts] : n \in 0..MaxFacts}

FactLists == SweepLists \cup SmallLists

\* Clock values three successive datetime.now() calls may return from time t.
ReadSchedules(t) ==
    {<<a, b, c>> : a \in {t}, b \in t..(t + MaxDrift), c \in t..(t + MaxDrift)}

\* The datetime.now() calls a calculate_phase call made: one by a frame that
\* reached line 60, one more when it went on to the recursive call.
RECURSIVE NowCalls(_)
NowCalls(frames) ==
    IF frames = <<>> THEN 0
    ELSE (CASE Head(frames).line = 98 -> 1
            [] Head(frames).line = 83 -> 2
            [] OTHER -> 0) + NowCalls(Tail(frames))

ReadsOf(call, rs) == [i \in 1..NowCalls(call.frames) |-> Reading(rs, i)]

\* The clock once the call is over: not before its last reading.
ClockAfter(t, rds) == IF rds = <<>> THEN t ELSE rds[Len(rds)]

NoCall == [resp |-> PhaseResponse(None, FALSE, None), frames |-> <<>>]

\* The stored user document, without events.
NoEvents(t) == [events |-> <<>>, updated_at |-> t]

\* Connections on which accept-event requests arrive, and one not in use.
MaxConnections == 2
Connections == 1..MaxConnections
NoSuggestion ==
    [id |-> [prefix |-> "", uuid |-> 0], title |-> "", start |-> "", end |-> "",
     color |-> "", type |-> "", reason |-> ""]
NoEvent ==
    [id |-> [prefix |-> "", uuid |-> 0], title |-> "", start |-> "", end |-> "",
     color |-> ""]
NoRequest ==
    [pc |-> "idle", event |-> NoSuggestion, user_events |-> <<>>,
     new_event |-> NoEvent, current_events |-> <<>>, error |-> NoError,
     status |-> 0, body |-> NoBody]

\* analyze_emotions not called yet.
NoAnalysis ==
    [pc |-> "idle", max_retries |-> 0, retry_count |-> 0, requests |-> 0,
     responses |-> <<>>, sleeps |-> <<>>, error |-> NoError, result |-> NoBody]
NoPrompt == [phase |-> None, mood |-> None, has_confidence |-> FALSE]
NoReply == [kind |-> None]

\* Users whose requests are served at the same time, and a user's request
\* not started yet.
Users == {"ana", "bea"}
NoSession(qa) ==
    [qa_pairs |-> qa, pc |-> "idle", endpoint |-> None, reads |-> <<>>,
     phase_call |-> NoCall, prompt |-> NoPrompt, openai_calls |-> 0,
     reply |-> NoReply, svc_error |-> NoError, body |-> NoBody,
     http_status |-> 0]
NoSessions == [u \in Users |-> NoSession(<<>>)]

(***************************************************************************)
(* Routes                                                                  *)
(***************************************************************************)
UserNotFound == [kind |-> "detail", detail |-> "User not found"]

PhaseBody(resp) ==
    [kind |-> "PhaseResponse", phase |-> resp.phase, has_data |-> resp.has_data,
     message |-> resp.message, calculated_at |-> import_time]

\* GET /{email}/phase for a stored user.
GetMenstrualPhase ==
    /\ pc \in {"idle", "done"}
    /\ \E rs \in ReadSchedules(clock) :
        /\ rs[2] <= rs[3]
        /\ rs[3] <= ClockEnd
        /\ LET call == CalculatePhase(qa_pairs, rs) IN
            /\ phase_call' = call
            /\ reads' = ReadsOf(call, rs)
            /\ clock' = ClockAfter(clock, ReadsOf(call, rs))
            /\ IF call.resp.raised # None
               THEN /\ svc_error' = Exception(call.resp.raised, "")
                    /\ body' = [kind |-> "detail",
                                detail |-> "Failed to calculate menstrual phase"]
                    /\ http_status' = 500
               ELSE /\ svc_error' = NoError
                    /\ body' = PhaseBody(call.resp)
                    /\ http_status' = 200
    /\ endpoint' = "phase"
    /\ pc' = "done"
    /\ UNCHANGED <<import_time, qa_pairs, prompt, openai_calls, reply, uuid_next>>
    /\ UNCHANGED <<user_doc, accepts, hf>>
    /\ UNCHANGED sessions

\* GET /{email}/phase for an email no user has.
GetMenstrualPhaseNotFound ==
    /\ pc \in {"idle", "done"}
    /\ endpoint' = "phase"
    /\ pc' = "done"
    /\ phase_call' = NoCall
    /\ reads' = <<>>
    /\ svc_error' = HTTPException(404, "User not found")
    /\ body' = UserNotFound
    /\ http_status' = 404
    /\ UNCHANGED <<clock, import_time, qa_pairs, prompt, openai_calls, reply,
                   uuid_next>>
    /\ UNCHANGED <<user_doc, accepts, hf>>
    /\ UNCHANGED sessions

\* Time passes between requests.
Tick ==
    /\ clock < ClockEnd
    /\ clock' = clock + 1
    /\ UNCHANGED <<import_time, qa_pairs, pc, endpoint, reads, phase_call, prompt,
                   openai_calls, reply, svc_error, body, http_status, uuid_next>>
    /\ UNCHANGED <<user_doc, accepts, hf>>
    /\ UNCHANGED sessions

InitRequest ==
    /\ pc = "idle"
    /\ endpoint = None
    /\ reads = <<>>
    /\ phase_call = NoCall
    /\ prompt = NoPrompt
    /\ openai_calls = 0
    /\ reply = NoReply
    /\ svc_error = NoError
    /\ body = NoBody
    /\ http_status = 0
    /\ uuid_next = 0

\* The phase calculator over every fact list of the bounded input space.
Init ==
    /\ clock = ClockStart
    /\ import_time = ClockStart
    /\ qa_pairs \in FactLists
    /\ InitRequest
    /\ user_doc = NoEvents(ClockStart)
    /\ accepts = [c \in Connections |-> NoRequest]
    /\ hf = NoAnalysis
    /\ sessions = NoSessions

Next ==
    \/ GetMenstrualPhase
    \/ GetMenstrualPhaseNotFound
    \/ Tick

Spec == Init /\ [][Next]_vars

(***************************************************************************)
(* The generators: inputs                                                  *)
(***************************************************************************)
MaxEvents == 2
MaxUuid == 2

AllRecKeys == {RecKeys[i] : i \in DOMAIN RecKeys}
RecKeySets ==
    {AllRecKeys, AllRecKeys \ {"affirmation"}, AllRecKeys \ {"diet_recommendations"}, {}}
ItemCounts == {5, 6}

Unstructured(kind) == [kind |-> kind, keys |-> {}, items |-> 0, typed |-> TRUE]

RecReplies ==
    {Unstructured("raise"), Unstructured("text")}
    \cup {[kind |-> "json", keys |-> K, items |-> n, typed |-> t] :
            K \in RecKeySets, n \in ItemCounts, t \in BOOLEAN}

AllEventKeys == {EventKeys[i] : i \in DOMAIN EventKeys}
EventItem(keys, type) ==
    [keys |-> keys, type |-> type, title |-> "Evening walk",
     start |-> "2024-03-02 17:00", end |-> "2024-03-02 17:30",
     reason |-> "Light exercise"]

EventItems ==
    { EventItem(AllEventKeys, "wellness"),
      EventItem(AllEventKeys, "Wellness"),
      EventItem(AllEventKeys, "productivity"),
      EventItem(AllEventKeys, "rest"),
      EventItem(AllEventKeys, "REST"),
      EventItem(AllEventKeys, "social"),
      EventItem(AllEventKeys, "learning"),
      EventItem(AllEventKeys, "party"),
      EventItem(AllEventKeys \ {"reason"}, "rest"),
      EventItem(AllEventKeys \ {"type"}, "") }

\* Items after the first of a reply.
LaterEventItems ==
    { EventItem(AllEventKeys, "wellness"),
      EventItem(AllEventKeys, "party"),
      EventItem(AllEventKeys \ {"reason"}, "rest") }

EventLists ==
    {<<>>} \cup {<<a>> \o l : a \in EventItems,
                              l \in UNION {[1..n -> LaterEventItems] :
                                              n \in 0..(MaxEvents - 1)}}

EventReplies ==
    {[kind |-> "raise", keys |-> {}, items |-> <<>>],
     [kind |-> "text", keys |-> {}, items |-> <<>>],
     [kind |-> "json", keys |-> {}, items |-> <<>>]}
    \cup {[kind |-> "json", keys |-> {"suggested_events"}, items |-> l] :
            l \in EventLists}

DatedList(k, label) ==
    <<QAPair(QDate, Strftime(BaseDay - k)), QAPair(QDuration, Text(label))>>

GenFactLists ==
    { <<>>,
      <<QAPair(QMood, Text("tired"))>>,
      <<QAPair(QDate, Strftime(BaseDay - 3))>>,
      <<QAPair(QDuration, Text("3-5"))>>,
      <<QAPair(QDate, Text("Feb 2024")), QAPair(QDuration, Text("3-5"))>>,
      DatedList(3, "3-5"), DatedList(10, "5-7"), DatedList(15, "7-10"),
      DatedList(20, "10+"), DatedList(44, "2-3"),
      DatedList(3, "3-5") \o <<QAPair(QMood, Text("tired")),
                               QAPair(QConfidence, Text("Yes"))>>,
      DatedList(10, "3-5") \o <<QAPair(QConfidence, Text("no")),
                                QAPair(QConfidence, Text("yes"))>>,
      <<QAPair(QMood, Text("tired")), QAPair(QConfidence, Text("YES")),
        QAPair(QMood, Text(""))>> \o DatedList(20, "5-7") }

(***************************************************************************)
(* The generators: routes                                                  *)
(***************************************************************************)
GeneratorStartTwoCalls(call, insufficient, new_prompt) ==
    IF call.resp.raised # None
    THEN [error |-> Exception(call.resp.raised, ""), status |-> 500,
          prompt |-> NoPrompt, calls |-> 0, pc |-> "done"]
    ELSE IF InsufficientData(call.resp)
    THEN [error |-> insufficient, status |-> RouteStatus(insufficient),
          prompt |-> NoPrompt, calls |-> 0, pc |-> "done"]
    ELSE [error |-> NoError, status |-> 0, prompt |-> new_prompt, calls |-> 2,
          pc |-> "await_openai"]

\* A generator up to its await of test_completion, given the phase call: it
\* fails without data, and with data sends the prompt.
GeneratorStart(call, insufficient, new_prompt) ==
    IF call.resp.raised # None
    THEN [error |-> Exception(call.resp.raised, ""), status |-> 500,
          prompt |-> NoPrompt, calls |-> 0, pc |-> "done"]
    ELSE IF InsufficientData(call.resp)
    THEN [error |-> insufficient, status |-> RouteStatus(insufficient),
          prompt |-> NoPrompt, calls |-> 0, pc |-> "done"]
    ELSE [error |-> NoError, status |-> 0, prompt |-> new_prompt, calls |-> 1,
          pc |-> "await_openai"]

\* GET /{email}/recommendations, to the await.
GetPersonalizedRecommendations ==
    /\ pc \in {"idle", "done"}
    /\ \E rs \in ReadSchedules(clock) :
        /\ rs[2] <= rs[3]
        /\ rs[3] <= ClockEnd
        /\ LET call == CalculatePhase(qa_pairs, rs)
               go == GeneratorStart(call, InsufficientRecommendations,
                                    RecommendationsPrompt(qa_pairs, call.resp))
           IN  /\ phase_call' = call
               /\ reads' = ReadsOf(call, rs)
               /\ clock' = ClockAfter(clock, ReadsOf(call, rs))
               /\ svc_error' = go.error
               /\ http_status' = go.status
               /\ prompt' = go.prompt
               /\ openai_calls' = go.calls
               /\ pc' = go.pc
    /\ endpoint' = "recommendations"
    /\ reply' = NoReply
    /\ body' = NoBody
    /\ UNCHANGED <<import_time, qa_pairs, uuid_next>>
    /\ UNCHANGED <<user_doc, accepts, hf>>
    /\ UNCHANGED sessions

\* test_completion answers; get_recommendations and its route finish.
RecommendationsReply ==
    /\ pc = "await_openai"
    /\ endpoint = "recommendations"
    /\ \E r \in RecReplies :
        LET out == RecommendationsOutcome(phase_call.resp, r) IN
        /\ reply' = r
        /\ svc_error' = out.error
        /\ body' = out.value
        /\ http_status' = RouteStatus(out.error)
    /\ pc' = "done"
    /\ UNCHANGED <<clock, import_time, qa_pairs, endpoint, reads, phase_call,
                   prompt, openai_calls, uuid_next>>
    /\ UNCHANGED <<user_doc, accepts, hf>>
    /\ UNCHANGED sessions

\* GET /{email}/suggested-events, to the await.
GetEventSuggestions ==
    /\ pc \in {"idle", "done"}
    /\ \E rs \in ReadSchedules(clock) :
        /\ rs[2] <= rs[3]
        /\ rs[3] <= ClockEnd
        /\ LET call == CalculatePhase(qa_pairs, rs)
               go == GeneratorStart(call, InsufficientSuggestions,
                                    EventsPrompt(qa_pairs, call.resp))
           IN  /\ phase_call' = call
               /\ reads' = ReadsOf(call, rs)
               /\ clock' = ClockAfter(clock, ReadsOf(call, rs))
               /\ svc_error' = go.error
               /\ http_status' = go.status
               /\ prompt' = go.prompt
               /\ openai_calls' = go.calls
               /\ pc' = go.pc
    /\ endpoint' = "suggested-events"
    /\ reply' = NoReply
    /\ body' = NoBody
    /\ UNCHANGED <<import_time, qa_pairs, uuid_next>>
    /\ UNCHANGED <<user_doc, accepts, hf>>
    /\ UNCHANGED sessions

\* test_completion answers; get_suggested_events and its route finish.
EventSuggestionsReply ==
    /\ pc = "await_openai"
    /\ endpoint = "suggested-events"
    /\ \E r \in EventReplies :
        LET out == EventsOutcome(phase_call.resp, r, uuid_next) IN
        /\ out.uuid <= MaxUuid
        /\ reply' = r
        /\ svc_error' = out.error
        /\ body' = out.value
        /\ http_status' = RouteStatus(out.error)
        /\ uuid_next' = out.uuid
    /\ pc' = "done"
    /\ UNCHANGED <<clock, import_time, qa_pairs, endpoint, reads, phase_call,
                   prompt, openai_calls>>
    /\ UNCHANGED <<user_doc, accepts, hf>>
    /\ UNCHANGED sessions

\* A generator route asked for an email no user has.
GeneratorNotFound ==
    /\ pc \in {"idle", "done"}
    /\ \E ep \in {"recommendations", "suggested-events"} : endpoint' = ep
    /\ pc' = "done"
    /\ phase_call' = NoCall
    /\ reads' = <<>>
    /\ prompt' = NoPrompt
    /\ openai_calls' = 0
    /\ reply' = NoReply
    /\ svc_error' = HTTPException(404, "User not found")
    /\ body' = UserNotFound
    /\ http_status' = 404
    /\ UNCHANGED <<clock, import_time, qa_pairs, uuid_next>>
    /\ UNCHANGED <<user_doc, accepts, hf>>
    /\ UNCHANGED sessions

\* The generators and their routes over a user of each kind.
InitGen ==
    /\ clock = ClockStart
    /\ import_time = ClockStart
    /\ qa_pairs \in GenFactLists
    /\ InitRequest
    /\ user_doc = NoEvents(ClockStart)
    /\ accepts = [c \in Connections |-> NoRequest]
    /\ hf = NoAnalysis
    /\ sessions = NoSessions

NextGen ==
    \/ GetPersonalizedRecommendations
    \/ RecommendationsReply
    \/ GetEventSuggestions
    \/ EventSuggestionsReply
    \/ GeneratorNotFound
    \/ Tick

SpecGen == InitGen /\ [][NextGen]_vars

(***************************************************************************)
(* HuggingFaceService: _process_emotions and analyze_emotions              *)
(***************************************************************************)
MaxRetriesArg == 3
SleepCap == 20
DefaultWait == 20

LoadingText == "Model SamLowe/roberta-base-go_emotions is currently loading"
LoadingTextNamingKey == "Model is loading, see estimated_time"

\* `"estimated_time" in text` on the error texts of the input space.
ContainsEstimatedTime(text) == text = LoadingTextNamingKey

Prediction(label, score) == [label |-> label, score |-> score, keyed |-> TRUE]
Unkeyed == [label |-> "", score |-> 0, keyed |-> FALSE]

\* The emotions dictionary keeps the last score of a label; the dominant
\* emotion is the first label inserted among those of the highest score.
ProcessEmotions(predictions) ==
    IF predictions = <<>> \/ \E i \in DOMAIN predictions : ~predictions[i].keyed
    THEN [error |-> Exception("ValueError", "Failed to process emotions"),
          emotions |-> <<>>, dominant_emotion |-> ""]
    ELSE LET labels == {predictions[i].label : i \in DOMAIN predictions}
             last(l) == Max({i \in DOMAIN predictions : predictions[i].label = l})
             first(l) == Min({i \in DOMAIN predictions : predictions[i].label = l})
             emotions_dict == [l \in labels |-> predictions[last(l)].score]
             top == Max({emotions_dict[l] : l \in labels})
             best == {l \in labels : emotions_dict[l] = top}
         IN  [error |-> NoError,
              emotions |-> emotions_dict,
              dominant_emotion |->
                  CHOOSE l \in best : \A k \in best : first(l) <= first(k)]

\* A response of the classifier: a timeout of the POST, or a status with a body
\* that is JSON or not; a 503 body may hold "error" and "estimated_time", a 200
\* body the predictions.
TimedOut ==
    [kind |-> "timeout", status |-> 0, json |-> FALSE, error |-> "",
     has_estimated_time |-> FALSE, estimated_time |-> 0, predictions |-> <<>>]
Answer(status, json, error, has, est, predictions) ==
    [kind |-> "response", status |-> status, json |-> json, error |-> error,
     has_estimated_time |-> has, estimated_time |-> est,
     predictions |-> predictions]

RetryableAny503(r) == r.status = 503 /\ r.json

\* elif status_code == 503 and "estimated_time" in response_json.get("error", "")
Retryable(r) == r.status = 503 /\ r.json /\ ContainsEstimatedTime(r.error)

\* min(response_json.get("estimated_time", 20), 20)
WaitTime(r) ==
    LET t == IF r.has_estimated_time THEN r.estimated_time ELSE DefaultWait
    IN  IF t < SleepCap THEN t ELSE SleepCap

Exhausted ==
    HTTPException(503, "Service temporarily unavailable. Model failed to load after maximum retries.")
HFTimeout == HTTPException(504, "Request to HuggingFace API timed out")
HFError == HTTPException(500, "Error analyzing emotions")

LoopHeadInclusive(h) ==
    IF h.retry_count <= h.max_retries
    THEN [h EXCEPT !.pc = "await_post", !.requests = @ + 1]
    ELSE [h EXCEPT !.pc = "done", !.error = Exhausted]

\* while retry_count < max_retries: post the request; after the loop, fail.
LoopHead(h) ==
    IF h.retry_count < h.max_retries
    THEN [h EXCEPT !.pc = "await_post", !.requests = @ + 1]
    ELSE [h EXCEPT !.pc = "done", !.error = Exhausted]

Failed(h, e) == [h EXCEPT !.pc = "done", !.error = e]

\* One pass of the loop body from the response on.  An HTTPException raised
\* inside the try is an Exception: the last handler turns it into a 500.
HandleResponse(h, r, now) ==
    LET got == [h EXCEPT !.responses = Append(@, r)] IN
    IF r.kind = "timeout" THEN Failed(got, HFTimeout)
    ELSE IF r.status = 200
    THEN IF ~r.json THEN Failed(got, HFError)
         ELSE LET p == ProcessEmotions(r.predictions) IN
              IF p.error.type # None THEN Failed(got, HFError)
              ELSE [got EXCEPT !.pc = "done",
                               !.result = [kind |-> "emotions",
                                           emotions |-> p.emotions,
                                           dominant_emotion |-> p.dominant_emotion,
                                           timestamp |-> now]]
    ELSE IF r.status = 503 /\ ~r.json THEN Failed(got, HFError)
    ELSE IF Retryable(r)
    THEN [got EXCEPT !.pc = "sleeping", !.sleeps = Append(@, WaitTime(r))]
    ELSE Failed(got, HFError)

ErrorTexts == {"", LoadingText, LoadingTextNamingKey}

HFResponses ==
    {TimedOut}
    \cup {Answer(200, TRUE, "", FALSE, 0, p) :
            p \in {<<Prediction("joy", 90), Prediction("sadness", 10)>>,
                   <<Prediction("joy", 40), Prediction("anger", 60),
                     Prediction("joy", 60)>>,
                   <<Unkeyed>>, <<>>}}
    \cup {Answer(st, FALSE, "", FALSE, 0, <<>>) : st \in {200, 503, 429}}
    \cup {Answer(500, TRUE, "", FALSE, 0, <<>>)}
    \cup {Answer(503, TRUE, e, FALSE, 0, <<>>) : e \in ErrorTexts}
    \cup {Answer(503, TRUE, e, TRUE, t, <<>>) : e \in ErrorTexts, t \in {5, 30}}

\* analyze_emotions(text, max_retries) is called.
AnalyzeEmotions ==
    /\ hf.pc \in {"idle", "done"}
    /\ \E m \in 0..MaxRetriesArg :
          hf' = LoopHead([NoAnalysis EXCEPT !.max_retries = m])
    /\ UNCHANGED <<clock, import_time, qa_pairs, pc, endpoint, reads, phase_call,
                   prompt, openai_calls, reply, svc_error, body, http_status,
                   uuid_next, user_doc, accepts>>
    /\ UNCHANGED sessions

\* The POST ends: with a response or with httpx.TimeoutException.
ClassifierResponds ==
    /\ hf.pc = "await_post"
    /\ \E r \in HFResponses : hf' = HandleResponse(hf, r, clock)
    /\ UNCHANGED <<clock, import_time, qa_pairs, pc, endpoint, reads, phase_call,
                   prompt, openai_calls, reply, svc_error, body, http_status,
                   uuid_next, user_doc, accepts>>
    /\ UNCHANGED sessions

\* asyncio.sleep returns: retry_count += 1; continue.
SleepOver ==
    /\ hf.pc = "sleeping"
    /\ hf' = LoopHead([hf EXCEPT !.retry_count = @ + 1])
    /\ UNCHANGED <<clock, import_time, qa_pairs, pc, endpoint, reads, phase_call,
                   prompt, openai_calls, reply, svc_error, body, http_status,
                   uuid_next, user_doc, accepts>>
    /\ UNCHANGED sessions

InitHF ==
    /\ clock = ClockStart
    /\ import_time = ClockStart
    /\ qa_pairs = <<>>
    /\ InitRequest
    /\ user_doc = NoEvents(ClockStart)
    /\ accepts = [c \in Connections |-> NoRequest]
    /\ hf = NoAnalysis
    /\ sessions = NoSessions

NextHF ==
    \/ AnalyzeEmotions
    \/ ClassifierResponds
    \/ SleepOver
    \/ Tick

SpecHF == InitHF /\ [][NextHF]_vars

\* The POST has a timeout and the sleep is finite: both steps do happen.
SpecHFLive ==
    SpecHF /\ WF_vars(ClassifierResponds) /\ WF_vars(SleepOver)

(***************************************************************************)
(* POST /{email}/accept-event and MongoDBService.update_user               *)
(***************************************************************************)
Suggestion(uuid, title, color, type) ==
    [id |-> [prefix |-> "sugg_", uuid |-> uuid], title |-> title,
     start |-> "2024-03-02 17:00", end |-> "2024-03-02 17:30",
     color |-> color, type |-> type, reason |-> "Recommended in this phase"]

\* Request bodies: suggestions as get_suggested_events returns them.
Suggestions ==
    { Suggestion(1, "Evening walk", "#4CAF50", "wellness"),
      Suggestion(2, "Board games", "#607D8B", "party") }

StoredEvent ==
    [id |-> [prefix |-> "", uuid |-> 0], title |-> "Lecture",
     start |-> "2024-03-01 09:00", end |-> "2024-03-01 10:00",
     color |-> "#2196F3"]

NewEventKeepingId(event, uuid) ==
    [id |-> event.id, title |-> event.title, start |-> event.start,
     end |-> event.end, color |-> event.color]

\* Event(id=str(uuid.uuid4()), title=..., start=..., end=..., color=...)
NewEvent(event, uuid) ==
    [id |-> [prefix |-> "", uuid |-> uuid], title |-> event.title,
     start |-> event.start, end |-> event.end, color |-> event.color]

\* result.modified_count of the $set on the user's document.
ModifiedCount(doc, new_doc) == IF doc = new_doc THEN 0 ELSE 1

AcceptFailed == HTTPException(500, "Failed to accept suggested event")
UpdateFailed == HTTPException(500, "Failed to update user's schedule")

\* The route up to the update_one it awaits: the user is read, the Event is
\* built and appended to the list read.
AcceptSuggestedEvent(c) ==
    /\ accepts[c].pc \in {"idle", "done"}
    /\ uuid_next < MaxUuid
    /\ \E event \in Suggestions :
        LET new_event == NewEvent(event, uuid_next + 1) IN
        accepts' = [accepts EXCEPT ![c] =
            [NoRequest EXCEPT !.pc = "await_update",
                              !.event = event,
                              !.user_events = user_doc.events,
                              !.new_event = new_event,
                              !.current_events =
                                  Append(user_doc.events, new_event)]]
    /\ uuid_next' = uuid_next + 1
    /\ UNCHANGED <<clock, import_time, qa_pairs, pc, endpoint, reads, phase_call,
                   prompt, openai_calls, reply, svc_error, body, http_status,
                   user_doc, hf>>
    /\ UNCHANGED sessions

\* update_one sets events and updated_at; update_user goes on to read the
\* user again when the document was modified, else the route answers 500.
UpdateOne(c) ==
    /\ accepts[c].pc = "await_update"
    /\ LET new_doc == [events |-> accepts[c].current_events,
                       updated_at |-> clock]
       IN  /\ user_doc' = new_doc
           /\ accepts' = [accepts EXCEPT ![c] =
                 IF ModifiedCount(user_doc, new_doc) # 0
                 THEN [@ EXCEPT !.pc = "await_reread"]
                 ELSE [@ EXCEPT !.pc = "done", !.error = UpdateFailed,
                                !.status = 500,
                                !.body = [kind |-> "detail",
                                          detail |-> UpdateFailed.message]]]
    /\ UNCHANGED <<clock, import_time, qa_pairs, pc, endpoint, reads, phase_call,
                   prompt, openai_calls, reply, svc_error, body, http_status,
                   uuid_next, hf>>
    /\ UNCHANGED sessions

\* update_one raises (the driver or the connection fails): the route's last
\* handler answers 500 and nothing is stored.
UpdateOneRaises(c) ==
    /\ accepts[c].pc = "await_update"
    /\ accepts' = [accepts EXCEPT ![c] =
          [@ EXCEPT !.pc = "done", !.error = AcceptFailed, !.status = 500,
                    !.body = [kind |-> "detail",
                              detail |-> AcceptFailed.message]]]
    /\ UNCHANGED <<clock, import_time, qa_pairs, pc, endpoint, reads, phase_call,
                   prompt, openai_calls, reply, svc_error, body, http_status,
                   uuid_next, user_doc, hf>>
    /\ UNCHANGED sessions

\* get_user_by_email inside update_user returns the user; the route returns
\* the new Event.
RereadUser(c) ==
    /\ accepts[c].pc = "await_reread"
    /\ accepts' = [accepts EXCEPT ![c] =
          [@ EXCEPT !.pc = "done", !.status = 200,
                    !.body = [kind |-> "Event",
                              event |-> accepts[c].new_event]]]
    /\ UNCHANGED <<clock, import_time, qa_pairs, pc, endpoint, reads, phase_call,
                   prompt, openai_calls, reply, svc_error, body, http_status,
                   uuid_next, user_doc, hf>>
    /\ UNCHANGED sessions

\* POST /{email}/accept-event for an email no user has.
AcceptNotFound(c) ==
    /\ accepts[c].pc \in {"idle", "done"}
    /\ \E event \in Suggestions :
        accepts' = [accepts EXCEPT ![c] =
            [NoRequest EXCEPT !.pc = "done", !.event = event,
                              !.error = HTTPException(404, "User not found"),
                              !.status = 404, !.body = UserNotFound]]
    /\ UNCHANGED <<clock, import_time, qa_pairs, pc, endpoint, reads, phase_call,
                   prompt, openai_calls, reply, svc_error, body, http_status,
                   uuid_next, user_doc, hf>>
    /\ UNCHANGED sessions

InitAccept ==
    /\ clock = ClockStart
    /\ import_time = ClockStart
    /\ qa_pairs = <<>>
    /\ InitRequest
    /\ user_doc \in {NoEvents(ClockStart),
                     [events |-> <<StoredEvent>>, updated_at |-> ClockStart]}
    /\ accepts = [c \in Connections |-> NoRequest]
    /\ hf = NoAnalysis
    /\ sessions = NoSessions

NextAccept ==
    \/ \E c \in Connections : AcceptSuggestedEvent(c)
    \/ \E c \in Connections : UpdateOne(c)
    \/ \E c \in Connections : UpdateOneRaises(c)
    \/ \E c \in Connections : RereadUser(c)
    \/ \E c \in Connections : AcceptNotFound(c)

\* Requests on the connections interleave at their awaits; the clock stands.
SpecAccept == InitAccept /\ [][NextAccept]_vars

(***************************************************************************)
(* The three routes served for different users at the same time            *)
(***************************************************************************)
\* Facts of the users, and what test_completion may answer.
ConcFactLists ==
    { <<QAPair(QMood, Text("tired"))>>,
      DatedList(3, "3-5") \o <<QAPair(QMood, Text("tired"))>>,
      DatedList(44, "5-7") \o <<QAPair(QConfidence, Text("yes"))>> }

ConcRecReplies ==
    { Unstructured("raise"),
      [kind |-> "json", keys |-> AllRecKeys, items |-> 5, typed |-> TRUE] }

ConcEventReplies ==
    { [kind |-> "text", keys |-> {}, items |-> <<>>],
      [kind |-> "json", keys |-> {"suggested_events"},
       items |-> <<EventItem(AllEventKeys, "rest")>>] }

PhaseResponseShared(u) ==
    LET others == {v \in Users \ {u} : sessions[v].phase_call.frames # <<>>}
    IN  IF others = {} THEN sessions[u].phase_call.resp
        ELSE sessions[CHOOSE v \in others : TRUE].phase_call.resp

\* phase_response, a local of the generator's invocation, after its await.
PhaseResponseOf(u) == sessions[u].phase_call.resp

\* The request of user u, started afresh with what it has done so far.
Started(u, ep, call, rds) ==
    [NoSession(sessions[u].qa_pairs) EXCEPT
        !.endpoint = ep, !.phase_call = call, !.reads = rds]

\* GET /{email}/phase for user u: calculate_phase has no await in it.
GetMenstrualPhaseFor(u) ==
    /\ sessions[u].pc = "idle"
    /\ \E rs \in ReadSchedules(clock) :
        /\ rs[2] <= rs[3]
        /\ rs[3] <= ClockEnd
        /\ LET call == CalculatePhase(sessions[u].qa_pairs, rs)
               rds == ReadsOf(call, rs)
           IN  /\ clock' = ClockAfter(clock, rds)
               /\ sessions' = [sessions EXCEPT ![u] =
                     IF call.resp.raised # None
                     THEN [Started(u, "phase", call, rds) EXCEPT
                             !.pc = "done",
                             !.svc_error = Exception(call.resp.raised, ""),
                             !.body = [kind |-> "detail",
                                       detail |-> "Failed to calculate menstrual phase"],
                             !.http_status = 500]
                     ELSE [Started(u, "phase", call, rds) EXCEPT
                             !.pc = "done",
                             !.body = PhaseBody(call.resp),
                             !.http_status = 200]]
    /\ UNCHANGED <<import_time, qa_pairs, pc, endpoint, reads, phase_call, prompt,
                   openai_calls, reply, svc_error, body, http_status, uuid_next,
                   user_doc, accepts, hf>>

\* A generator route for user u, to its await of test_completion.
GeneratorFor(u, ep, insufficient) ==
    /\ sessions[u].pc = "idle"
    /\ \E rs \in ReadSchedules(clock) :
        /\ rs[2] <= rs[3]
        /\ rs[3] <= ClockEnd
        /\ LET call == CalculatePhase(sessions[u].qa_pairs, rs)
               rds == ReadsOf(call, rs)
               new_prompt ==
                   IF ep = "recommendations"
                   THEN RecommendationsPrompt(sessions[u].qa_pairs, call.resp)
                   ELSE EventsPrompt(sessions[u].qa_pairs, call.resp)
               go == GeneratorStart(call, insufficient, new_prompt)
           IN  /\ clock' = ClockAfter(clock, rds)
               /\ sessions' = [sessions EXCEPT ![u] =
                     [Started(u, ep, call, rds) EXCEPT
                         !.pc = go.pc, !.svc_error = go.error,
                         !.http_status = go.status, !.prompt = go.prompt,
                         !.openai_calls = go.calls]]
    /\ UNCHANGED <<import_time, qa_pairs, pc, endpoint, reads, phase_call, prompt,
                   openai_calls, reply, svc_error, body, http_status, uuid_next,
                   user_doc, accepts, hf>>

\* GET /{email}/recommendations for user u, to the await.
GetPersonalizedRecommendationsFor(u) ==
    GeneratorFor(u, "recommendations", InsufficientRecommendations)

\* GET /{email}/suggested-events for user u, to the await.
GetEventSuggestionsFor(u) ==
    GeneratorFor(u, "suggested-events", InsufficientSuggestions)

\* test_completion answers user u's get_recommendations.
RecommendationsReplyFor(u) ==
    /\ sessions[u].pc = "await_openai"
    /\ sessions[u].endpoint = "recommendations"
    /\ \E r \in ConcRecReplies :
        LET out == RecommendationsOutcome(PhaseResponseOf(u), r) IN
        sessions' = [sessions EXCEPT ![u] =
            [@ EXCEPT !.pc = "done", !.reply = r, !.svc_error = out.error,
                      !.body = out.value,
                      !.http_status = RouteStatus(out.error)]]
    /\ UNCHANGED <<clock, import_time, qa_pairs, pc, endpoint, reads, phase_call,
                   prompt, openai_calls, reply, svc_error, body, http_status,
                   uuid_next, user_doc, accepts, hf>>

\* test_completion answers user u's get_suggested_events; the uuid4 values
\* come from the one generator of the process.
EventSuggestionsReplyFor(u) ==
    /\ sessions[u].pc = "await_openai"
    /\ sessions[u].endpoint = "suggested-events"
    /\ \E r \in ConcEventReplies :
        LET out == EventsOutcome(PhaseResponseOf(u), r, uuid_next) IN
        /\ out.uuid <= MaxUuid
        /\ uuid_next' = out.uuid
        /\ sessions' = [sessions EXCEPT ![u] =
              [@ EXCEPT !.pc = "done", !.reply = r, !.svc_error = out.error,
                        !.body = out.value,
                        !.http_status = RouteStatus(out.error)]]
    /\ UNCHANGED <<clock, import_time, qa_pairs, pc, endpoint, reads, phase_call,
                   prompt, openai_calls, reply, svc_error, body, http_status,
                   user_doc, accepts, hf>>

\* Two users, each with facts of a kind.
InitConc ==
    /\ clock = ClockStart
    /\ import_time = ClockStart
    /\ qa_pairs = <<>>
    /\ InitRequest
    /\ user_doc = NoEvents(ClockStart)
    /\ accepts = [c \in Connections |-> NoRequest]
    /\ hf = NoAnalysis
    /\ \E f \in [Users -> ConcFactLists] :
          sessions = [u \in Users |-> NoSession(f[u])]

NextConc ==
    \/ \E u \in Users : GetMenstrualPhaseFor(u)
    \/ \E u \in Users : GetPersonalizedRecommendationsFor(u)
    \/ \E u \in Users : RecommendationsReplyFor(u)
    \/ \E u \in Users : GetEventSuggestionsFor(u)
    \/ \E u \in Users : EventSuggestionsReplyFor(u)
    \/ Tick

\* One request of each user; the requests interleave at their awaits, in any
\* order.
SpecConc == InitConc /\ [][NextConc]_vars

(***************************************************************************)
(* Vocabulary of the properties                                            *)
(***************************************************************************)
\* A calculate_phase call has returned (or raised) in the request just served.
CallDone == pc = "done" /\ endpoint = "phase" /\ phase_call.frames # <<>>

\* Every datetime.now() of the call returned the same instant.
ClockFixed == \A i \in DOMAIN reads : reads[i] = reads[1]

Resp == phase_call.resp

\* The clock as the call saw it; a call that never read it ran at `clock`.
CallClock == IF reads = <<>> THEN <<clock>> ELSE reads
Today == DateOf(CallClock[1])

\* Year-month-day text naming a day of the calendar.
RealDay(a) ==
    /\ a.kind = "ymd"
    /\ a.y \in 1..9999
    /\ a.m \in 1..12
    /\ a.d >= 1
    /\ a.d <= (IF a.m = 2
               THEN (IF a.y % 4 = 0 /\ (a.y % 100 # 0 \/ a.y % 400 = 0)
                     THEN 29 ELSE 28)
               ELSE IF a.m \in {4, 6, 9, 11} THEN 30 ELSE 31)

\* Whole days from the day a names to today.
DaysAgo(a) == Today - Ymd2Ord(a.y, a.m, a.d)

Absent(q) == \A i \in DOMAIN qa_pairs : qa_pairs[i].question # q
Provided(q) == ~Falsy(LastAnswer(qa_pairs, q))
DateIndexes == {i \in DOMAIN qa_pairs : qa_pairs[i].question = QDate}

\* The stored facts give a date on every date fact and a duration.
DatedFacts ==
    /\ DateIndexes # {}
    /\ \A i \in DateIndexes : RealDay(qa_pairs[i].answer)
    /\ Provided(QDuration)

ExpectedLength(label) ==
    CASE label = "3-5" -> 4
      [] label = "5-7" -> 6
      [] label = "7-10" -> 8
      [] label = "10+" -> 10
      [] OTHER -> 5

(***************************************************************************)
(* C1: with the clock fixed, a valid last-period date d days before today, *)
(* 0 <= d < 28, and period length L of the duration fact give has_data and *)
(* phase menstrual iff d < L, follicular iff L <= d < 14, ovulation iff    *)
(* 14 <= d < 17, luteal iff 17 <= d < 28.                                  *)
(***************************************************************************)
C1_PhaseByThreshold ==
    (CallDone /\ ClockFixed /\ DatedFacts) =>
        LET d == DaysAgo(LastAnswer(qa_pairs, QDate))
            L == ExpectedLength(LastAnswer(qa_pairs, QDuration).text)
        IN  d \in 0..27 =>
              /\ Resp.has_data
              /\ Resp.phase = "menstrual" <=> d < L
              /\ Resp.phase = "follicular" <=> (L <= d /\ d < 14)
              /\ Resp.phase = "ovulation" <=> (14 <= d /\ d < 17)
              /\ Resp.phase = "luteal" <=> (17 <= d /\ d < 28)

C1_Witness ==
    /\ CallDone /\ ClockFixed /\ DatedFacts
    /\ Len(qa_pairs) = 2
    /\ DaysAgo(LastAnswer(qa_pairs, QDate)) = 14
    /\ LastAnswer(qa_pairs, QDuration).text = "3-5"
    /\ Resp.phase = "ovulation"

(***************************************************************************)
(* C2: with the clock fixed, a last-period date d >= 28 days ago gives the *)
(* response of the same facts with the date (d mod 28) days ago.           *)
(***************************************************************************)
NormalizedList ==
    [i \in DOMAIN qa_pairs |->
        IF /\ qa_pairs[i].question = QDate
           /\ RealDay(qa_pairs[i].answer)
           /\ DaysAgo(qa_pairs[i].answer) >= 28
        THEN QAPair(QDate, Strftime(Today - (DaysAgo(qa_pairs[i].answer) % 28)))
        ELSE qa_pairs[i]]

C2_SameAsNormalized ==
    (/\ CallDone /\ ClockFixed
     /\ \E i \in DateIndexes : /\ RealDay(qa_pairs[i].answer)
                               /\ DaysAgo(qa_pairs[i].answer) >= 28) =>
        Resp = CalculatePhase(NormalizedList, CallClock).resp

C2_Witness ==
    /\ CallDone /\ ClockFixed /\ DatedFacts
    /\ DaysAgo(LastAnswer(qa_pairs, QDate)) = 59
    /\ Len(phase_call.frames) = 2
    /\ Resp.has_data /\ Resp.phase = "menstrual"

(***************************************************************************)
(* C3: every PhaseResult returned has either has_data = false, no phase    *)
(* and a message, or has_data = true, a phase and no message.              *)
(***************************************************************************)
C3_TaggedResult ==
    (CallDone /\ Resp.raised = None) =>
        /\ body.kind = "PhaseResponse"
        /\ body.has_data = Resp.has_data
        /\ body.phase = Resp.phase
        /\ body.message = Resp.message
        /\ ~body.has_data =>
              body.phase = None /\ body.message # None /\ body.message # ""
        /\ body.has_data => body.phase \in Phases /\ body.message = None

C3_Witness ==
    /\ CallDone
    /\ ~body.has_data
    /\ body.message = InvalidDateMessage
    /\ body.phase = None

(***************************************************************************)
(* C4: when the date fact or the duration fact is missing the result has   *)
(* has_data = false, no phase, and a message naming a fact that was not    *)
(* provided: the date message when only the date is missing, the duration  *)
(* message when only the duration is missing.                              *)
(***************************************************************************)
C4_MissingFactNamed ==
    (CallDone /\ (Absent(QDate) \/ Absent(QDuration))) =>
        /\ Resp.raised = None
        /\ ~Resp.has_data
        /\ Resp.phase = None
        /\ Resp.message \in
              {NoDataMessage, DateMissingMessage, DurationMissingMessage}
        /\ Resp.message = NoDataMessage => qa_pairs = <<>>
        /\ Resp.message = DateMissingMessage => ~Provided(QDate)
        /\ Resp.message = DurationMissingMessage => ~Provided(QDuration)
        /\ (Absent(QDate) /\ Provided(QDuration)) =>
              Resp.message = DateMissingMessage
        /\ (Absent(QDuration) /\ Provided(QDate)) =>
              Resp.message = DurationMissingMessage

C4_Witness ==
    /\ CallDone
    /\ Absent(QDuration) /\ Provided(QDate)
    /\ Resp.message = DurationMissingMessage
    /\ ~Resp.has_data

(***************************************************************************)
(* C5: the missing-data message follows the precedence no data at all,     *)
(* then missing duration, then missing date.                               *)
(* C5_AsClaimed states it; the code checks the date before the duration,   *)
(* which C5_DateBeforeDuration states.                                     *)
(***************************************************************************)
C5_AsClaimed ==
    CallDone =>
        /\ qa_pairs = <<>> => Resp.message = NoDataMessage
        /\ (qa_pairs # <<>> /\ Absent(QDate) /\ Absent(QDuration)) =>
              Resp.message = DurationMissingMessage

C5_DateBeforeDuration ==
    CallDone =>
        /\ qa_pairs = <<>> => Resp.message = NoDataMessage
        /\ (qa_pairs # <<>> /\ ~Provided(QDate)) =>
              Resp.message = DateMissingMessage
        /\ (qa_pairs # <<>> /\ Provided(QDate) /\ ~Provided(QDuration)) =>
              Resp.message = DurationMissingMessage

C5_Witness ==
    /\ CallDone
    /\ qa_pairs # <<>> /\ Absent(QDate) /\ Absent(QDuration)
    /\ Resp.message = DateMissingMessage

(***************************************************************************)
(* C6: with both required facts provided and a date answer that does not   *)
(* parse, the result is has_data = false, no phase and the invalid-date    *)
(* message, which is none of the missing-fact messages; and no fact list   *)
(* makes calculate_phase raise.                                            *)
(***************************************************************************)
C6_InvalidDateTagged ==
    /\ InvalidDateMessage \notin
          {NoDataMessage, DateMissingMessage, DurationMissingMessage}
    /\ CallDone =>
          /\ Resp.raised = None
          /\ http_status = 200
          /\ (/\ Provided(QDate) /\ Provided(QDuration)
              /\ \E i \in DateIndexes : ~RealDay(qa_pairs[i].answer)) =>
                /\ ~Resp.has_data
                /\ Resp.phase = None
                /\ Resp.message = InvalidDateMessage

C6_Witness ==
    /\ CallDone
    /\ Len(qa_pairs) = 2
    /\ qa_pairs[1] = QAPair(QDate, Text("Feb 2024"))
    /\ Provided(QDuration)
    /\ Resp.message = InvalidDateMessage
    /\ ~Resp.has_data

(***************************************************************************)
(* C7: the period length a call uses is 4 for "3-5", 6 for "5-7", 8 for    *)
(* "7-10", 10 for "10+" and 5 for any other label, and nothing else.       *)
(***************************************************************************)
C7_PeriodLengthTable ==
    CallDone =>
        \A k \in DOMAIN phase_call.frames :
            LET f == phase_call.frames[k] IN
            f.line \in {83, 98} =>
                /\ f.period_duration = LastAnswer(f.qa_pairs, QDuration)
                /\ f.period_length = ExpectedLength(f.period_duration.text)
                /\ f.period_length \in {4, 5, 6, 8, 10}
                /\ (k = Len(phase_call.frames) /\ ClockFixed) =>
                      (Resp.phase = "menstrual"
                          <=> f.days_since_period < ExpectedLength(f.period_duration.text))

C7_Witness ==
    /\ CallDone /\ ClockFixed
    /\ Len(phase_call.frames) = 1
    /\ phase_call.frames[1].period_duration = Text("2-3")
    /\ phase_call.frames[1].period_length = 5
    /\ phase_call.frames[1].days_since_period = 4
    /\ Resp.phase = "menstrual"

(***************************************************************************)
(* Vocabulary of the generators' properties                                *)
(***************************************************************************)
Generators == {"recommendations", "suggested-events"}

\* A generator has calculated the phase in the request being served.
GenCalled == endpoint \in Generators /\ phase_call.frames # <<>>
GenDone == GenCalled /\ pc = "done"

\* The reply is a JSON object without one of the fields the generator reads.
LacksRequiredField ==
    /\ reply.kind = "json"
    /\ IF endpoint = "recommendations"
       THEN \E k \in {"diet_recommendations", "exercise_recommendations",
                      "symptoms_to_watch", "affirmation"} : k \notin reply.keys
       ELSE \/ "suggested_events" \notin reply.keys
            \/ \E i \in DOMAIN reply.items :
                 \E k \in {"title", "start", "end", "type", "reason"} :
                    k \notin reply.items[i].keys

(***************************************************************************)
(* C8: when calculate_phase reports has_data = false, get_recommendations  *)
(* and get_suggested_events fail with the insufficient-data error and the  *)
(* text-generation collaborator is not called in that invocation.          *)
(***************************************************************************)
C8_NoDataNoGeneration ==
    (GenCalled /\ ~Resp.has_data) =>
        /\ pc = "done"
        /\ svc_error.type = "ValueError"
        /\ svc_error.message =
              (IF endpoint = "recommendations"
               THEN "Insufficient menstrual data to generate recommendations"
               ELSE "Insufficient menstrual data to generate suggestions")
        /\ openai_calls = 0
        /\ reply = NoReply
        /\ body = NoBody

C8_Witness ==
    /\ GenDone
    /\ endpoint = "suggested-events"
    /\ Resp.message = InvalidDateMessage
    /\ ~Resp.has_data
    /\ svc_error.type = "ValueError"
    /\ openai_calls = 0

(***************************************************************************)
(* C9: a reply that is valid structured data but lacks a required field    *)
(* makes both generators fail with the error kind of an unparseable reply  *)
(* and return no object.  The code raises KeyError there, and the          *)
(* ValueError "Failed to parse ..." only for a reply that is no JSON.      *)
(***************************************************************************)
C9_AsClaimed ==
    (GenDone /\ LacksRequiredField) =>
        /\ svc_error.type = "ValueError"
        /\ svc_error.message =
              (IF endpoint = "recommendations"
               THEN "Failed to parse recommendations"
               ELSE "Failed to parse event suggestions")
        /\ body = NoBody

(***************************************************************************)
(* C10: the generator routes answer an insufficient-data failure with a    *)
(* 4xx status and a reply that cannot be parsed (not well-formed, or not   *)
(* of the expected shape) with a 5xx status.  The code answers 400 to a    *)
(* reply that is no JSON.                                                  *)
(***************************************************************************)
C10_AsClaimed ==
    GenDone =>
        /\ ~Resp.has_data => http_status \in 400..499
        /\ (reply.kind = "text" \/ LacksRequiredField) =>
              http_status \in 500..599

(***************************************************************************)
(* C11: an invocation of get_recommendations or get_suggested_events that  *)
(* passes the phase-data check calls test_completion exactly once: the     *)
(* call is made before the generator waits, and whatever the collaborator  *)
(* answers (a failure, text that is no JSON, a JSON object of any shape)   *)
(* ends the invocation without another call.                               *)
(***************************************************************************)
C11_ExactlyOneCall ==
    (GenCalled /\ Resp.raised = None /\ Resp.has_data) =>
        /\ openai_calls = 1
        /\ pc \in {"await_openai", "done"}
        /\ pc = "await_openai" <=> reply = NoReply
        /\ reply.kind \in {"raise", "text"} =>
              (pc = "done" /\ svc_error.type # None /\ body = NoBody)

C11_Witness ==
    /\ GenDone
    /\ Resp.has_data
    /\ reply.kind = "text"
    /\ svc_error.type = "ValueError"
    /\ openai_calls = 1

(***************************************************************************)
(* C13: on success the calculated_at of the PhaseResult is the clock time  *)
(* of that invocation.  PhaseResponse declares the field with the default  *)
(* datetime.utcnow() evaluated once, when the class is defined, and        *)
(* calculate_phase passes no value: every result carries that instant.     *)
(***************************************************************************)
C13_AsClaimed ==
    (CallDone /\ Resp.raised = None /\ Resp.has_data) =>
        /\ body.calculated_at >= reads[1]
        /\ body.calculated_at <= reads[Len(reads)]

(***************************************************************************)
(* C14: the generated_at of a Recommendation returned by                   *)
(* get_recommendations is the clock time at which it was constructed in    *)
(* that request.  MenstrualRecommendations declares the field with the     *)
(* default datetime.utcnow() evaluated once, when the class is defined.    *)
(***************************************************************************)
C14_AsClaimed ==
    [][(pc = "await_openai" /\ pc' = "done"
        /\ body'.kind = "MenstrualRecommendations") =>
            body'.generated_at = clock']_vars

(***************************************************************************)
(* C18: every Recommendation returned holds exactly 6 diet items, 6        *)
(* exercise items, 6 symptoms to watch and one affirmation, and the phase  *)
(* calculate_phase computed in the request.  The code copies the lists of  *)
(* the reply without looking at their lengths.                             *)
(***************************************************************************)
C18_AsClaimed ==
    (GenDone /\ body.kind = "MenstrualRecommendations") =>
        /\ body.diet_recommendations = 6
        /\ body.exercise_recommendations = 6
        /\ body.symptoms_to_watch = 6
        /\ body.affirmation = 1
        /\ body.phase = Resp.phase

(***************************************************************************)
(* C19: the color of a SuggestedEvent is the table entry of its category   *)
(* and the default gray for a category outside the table, without error.   *)
(* C19_AsClaimed states it for the category as the event carries it; the   *)
(* code looks the category up in lower case, so "Wellness" and "REST" get  *)
(* the colors of "wellness" and "rest", which C19_TableIgnoringCase        *)
(* states.                                                                 *)
(***************************************************************************)
SuggestionsReturned == GenDone /\ body.kind = "SuggestedEvents"

TableColor(category) ==
    CASE category = "wellness" -> "#4CAF50"
      [] category = "productivity" -> "#2196F3"
      [] category = "rest" -> "#9C27B0"
      [] category = "social" -> "#FF9800"
      [] category = "learning" -> "#795548"
      [] OTHER -> "#607D8B"

C19_AsClaimed ==
    SuggestionsReturned =>
        \A i \in DOMAIN body.events :
            body.events[i].color = TableColor(body.events[i].type)

C19_TableIgnoringCase ==
    SuggestionsReturned =>
        /\ svc_error.type = None
        /\ Len(body.events) = Len(reply.items)
        /\ \A i \in DOMAIN body.events :
              LET e == body.events[i] IN
              /\ e.type = reply.items[i].type
              /\ e.type \in {"wellness", "Wellness"} => e.color = "#4CAF50"
              /\ e.type = "productivity" => e.color = "#2196F3"
              /\ e.type \in {"rest", "REST"} => e.color = "#9C27B0"
              /\ e.type = "social" => e.color = "#FF9800"
              /\ e.type = "learning" => e.color = "#795548"
              /\ e.type = "party" => e.color = "#607D8B"

C19_Witness ==
    /\ SuggestionsReturned
    /\ Len(body.events) = 2
    /\ body.events[1].type = "REST"
    /\ body.events[1].color = "#9C27B0"
    /\ body.events[2].type = "party"
    /\ body.events[2].color = "#607D8B"

(***************************************************************************)
(* C20: calculate_phase never mutates the fact list it is given: no step   *)
(* changes the stored list, the outermost call worked on it as stored,     *)
(* and every recursive call works on a list of its own holding two facts,  *)
(* the synthesized date and the duration answer of the calling frame.      *)
(***************************************************************************)
C20_CallerListUntouched ==
    /\ [][qa_pairs' = qa_pairs]_vars
    /\ [](CallDone =>
            /\ phase_call.frames[1].qa_pairs = qa_pairs
            /\ \A k \in 2..Len(phase_call.frames) :
                  LET f == phase_call.frames[k].qa_pairs IN
                  /\ Len(f) = 2
                  /\ f[1].question = QDate
                  /\ RealDay(f[1].answer)
                  /\ f[2].question = QDuration
                  /\ f[2].answer = phase_call.frames[k - 1].period_duration)

C20_Witness ==
    /\ CallDone
    /\ Len(qa_pairs) = 3
    /\ qa_pairs[3].question = QOther
    /\ Len(phase_call.frames) = 2
    /\ phase_call.frames[1].qa_pairs = qa_pairs
    /\ Len(phase_call.frames[2].qa_pairs) = 2
    /\ Resp.has_data

(***************************************************************************)
(* Vocabulary of the properties of analyze_emotions                        *)
(***************************************************************************)
\* A 503 whose body carries an estimated wait time.
CarriesEstimate(r) ==
    r.kind = "response" /\ r.status = 503 /\ r.json /\ r.has_estimated_time

\* A 503 whose error text names the estimated time: the response that
\* analyze_emotions takes for a loading model.
NamesEstimate(r) ==
    /\ r.kind = "response" /\ r.status = 503 /\ r.json
    /\ r.error = "Model is loading, see estimated_time"

Capped(t) == IF t > 20 THEN 20 ELSE t

AnalysisBusy == hf.pc \in {"await_post", "sleeping"}
AnalysisDone == hf.pc = "done"

(***************************************************************************)
(* C15: a 503 whose body carries an estimated wait time, received while    *)
(* attempts remain, does not make analyze_emotions fail: it sleeps that    *)
(* time capped at 20 seconds and sends the request again.  The code looks  *)
(* for the word estimated_time inside the error text, not for the field:   *)
(* a loading response whose error text does not hold the word fails.       *)
(***************************************************************************)
C15_AsClaimed ==
    \A i \in DOMAIN hf.responses :
        (CarriesEstimate(hf.responses[i]) /\ i < hf.max_retries) =>
            /\ Len(hf.sleeps) >= i
            /\ hf.sleeps[i] = Capped(hf.responses[i].estimated_time)
            /\ \/ hf.requests > i
               \/ (hf.pc = "sleeping" /\ i = Len(hf.responses))

(***************************************************************************)
(* C16: a call of analyze_emotions sends at most max_retries requests and  *)
(* ends; after max_retries responses in a row that it took for a loading   *)
(* model it fails with status 503; a result is returned only on a 200      *)
(* response.                                                               *)
(***************************************************************************)
C16_BoundedRetries ==
    /\ [](/\ hf.requests <= hf.max_retries
          /\ Len(hf.responses) <= hf.requests
          /\ Len(hf.sleeps) <= Len(hf.responses)
          /\ hf.result # NoBody =>
                /\ hf.pc = "done"
                /\ hf.error = NoError
                /\ hf.responses[Len(hf.responses)].status = 200
                /\ \A i \in 1..(Len(hf.responses) - 1) :
                      hf.responses[i].status = 503
          /\ (/\ hf.pc \in {"await_post", "done"}
              /\ Len(hf.responses) = hf.max_retries
              /\ \A i \in DOMAIN hf.responses : NamesEstimate(hf.responses[i])) =>
                /\ hf.pc = "done"
                /\ hf.error.type = "HTTPException"
                /\ hf.error.status = 503
                /\ hf.result = NoBody)
    /\ (AnalysisBusy ~> AnalysisDone)

C16_Witness ==
    /\ hf.pc = "done"
    /\ hf.max_retries = 3
    /\ hf.requests = 3
    /\ Len(hf.sleeps) = 3
    /\ \A i \in DOMAIN hf.responses : NamesEstimate(hf.responses[i])
    /\ hf.error.status = 503

(***************************************************************************)
(* C17: a response that is neither a 200 nor a 503 telling of a loading    *)
(* model (by an estimated wait time or by its error text), and a request   *)
(* timeout, end the call with an error at once: it is the last response    *)
(* of the call, no sleep follows it and no request is sent after it.       *)
(***************************************************************************)
NotLoading(r) ==
    \/ r.kind = "timeout"
    \/ r.status \notin {200, 503}
    \/ r.status = 503 /\ ~r.json
    \/ r.status = 503 /\ ~CarriesEstimate(r) /\ ~NamesEstimate(r)

C17_FailsAtOnce ==
    \A i \in DOMAIN hf.responses :
        NotLoading(hf.responses[i]) =>
            /\ i = Len(hf.responses)
            /\ hf.pc = "done"
            /\ hf.error.type = "HTTPException"
            /\ hf.error.status \in {500, 504}
            /\ hf.responses[i].kind = "timeout" => hf.error.status = 504
            /\ hf.result = NoBody
            /\ Len(hf.sleeps) = i - 1
            /\ hf.requests = i

C17_Witness ==
    /\ hf.pc = "done"
    /\ hf.max_retries = 3
    /\ Len(hf.responses) = 2
    /\ hf.responses[2].status = 429
    /\ Len(hf.sleeps) = 1
    /\ hf.requests = 2
    /\ hf.error.status = 500

(***************************************************************************)
(* C12: when an accept-event request for a stored user succeeds, the list  *)
(* it wrote is the stored list it read with one Event appended: the        *)
(* Event has the title, start, end and color of the accepted suggestion    *)
(* and a new id, and neither it nor any stored event has a category or a   *)
(* reason.  With no other write between the read and the write, and so     *)
(* whenever the request was served alone, that is the previously stored    *)
(* list with the one Event appended.                                       *)
(***************************************************************************)
EventFields == {"id", "title", "start", "end", "color"}

Accepted(c) == accepts[c].pc = "done" /\ accepts[c].status = 200

RecognizedFact(f) == f.question \in {QDate, QDuration}
Recognized == SelectSeq(qa_pairs, RecognizedFact)

SameResult(r1, r2) ==
    /\ r1.has_data = r2.has_data
    /\ r1.phase = r2.phase
    /\ r1.message = r2.message

C21_AsClaimed ==
    CallDone =>
        /\ Resp.raised = None
        /\ SameResult(Resp, CalculatePhase(Recognized, CallClock).resp)

C21_IgnoredInNonEmptyList ==
    CallDone =>
        /\ Resp.raised = None
        /\ Resp.has_data = CalculatePhase(Recognized, CallClock).resp.has_data
        /\ Resp.phase = CalculatePhase(Recognized, CallClock).resp.phase
        /\ IF Recognized = <<>> /\ qa_pairs # <<>>
           THEN Resp.message = DateMissingMessage
           ELSE Resp.message = CalculatePhase(Recognized, CallClock).resp.message

C21_Witness ==
    /\ CallDone
    /\ Len(qa_pairs) = 3
    /\ qa_pairs[1].question = QDate
    /\ qa_pairs[2].question = QOther
    /\ qa_pairs[3].question = QDuration
    /\ Len(Recognized) = 2
    /\ Resp.has_data
    /\ Resp.phase = "menstrual"

(***************************************************************************)
(* C22: with the clock fixed, every permutation of the fact list gives the *)
(* same result (has_data, phase, message).  C22_AsClaimed states it for    *)
(* every list; both loops keep the answer of the last fact of a question,  *)
(* so the order matters when a recognized question occurs with different   *)
(* answers.  C22_UnorderedWithoutConflict states it for the lists where    *)
(* all facts of a recognized question carry the same answer.               *)
(***************************************************************************)
Orderings(n) ==
    {p \in [1..n -> 1..n] : \A i, j \in 1..n : p[i] = p[j] => i = j}

Permuted(p) == [i \in DOMAIN qa_pairs |-> qa_pairs[p[i]]]

NoConflict ==
    \A i, j \in DOMAIN qa_pairs :
        (RecognizedFact(qa_pairs[i])
            /\ qa_pairs[i].question = qa_pairs[j].question) =>
                qa_pairs[i].answer = qa_pairs[j].answer

C22_AsClaimed ==
    (CallDone /\ ClockFixed) =>
        \A p \in Orderings(Len(qa_pairs)) :
            SameResult(Resp, CalculatePhase(Permuted(p), CallClock).resp)

C22_UnorderedWithoutConflict ==
    (CallDone /\ ClockFixed /\ NoConflict) =>
        \A p \in Orderings(Len(qa_pairs)) :
            /\ CalculatePhase(Permuted(p), CallClock).resp.raised = None
            /\ SameResult(Resp, CalculatePhase(Permuted(p), CallClock).resp)

C22_Witness ==
    /\ CallDone /\ ClockFixed /\ NoConflict
    /\ Len(qa_pairs) = 3
    /\ qa_pairs[1].question = QDuration
    /\ qa_pairs[2].question = QMood
    /\ qa_pairs[3].question = QDate
    /\ Resp.has_data
    /\ Len(phase_call.frames) = 2

(***************************************************************************)
(* C23: the prompt of get_recommendations takes the mood "neutral" when    *)
(* the user has no mood fact and else the answer of the mood fact (the     *)
(* last one when there are several), and the confidence as high iff the    *)
(* confidence fact (the first one when there are several) answers "yes"    *)
(* in any letter case; without that fact it is low.                        *)
(***************************************************************************)
Asking(q) == {i \in DOMAIN qa_pairs : qa_pairs[i].question = q}

PromptSent ==
    /\ endpoint = "recommendations"
    /\ GenCalled /\ Resp.raised = None /\ Resp.has_data

C23_MoodAndConfidence ==
    PromptSent =>
        /\ prompt.kind = "recommendations"
        /\ prompt.phase = Resp.phase
        /\ Asking(QMood) = {} => prompt.mood = "neutral"
        /\ Asking(QMood) # {} =>
              prompt.mood = qa_pairs[Max(Asking(QMood))].answer.text
        /\ Asking(QConfidence) = {} => ~prompt.has_confidence
        /\ Asking(QConfidence) # {} =>
              (prompt.has_confidence <=>
                  qa_pairs[Min(Asking(QConfidence))].answer.text
                      \in {"yes", "Yes", "YES"})

C23_Witness ==
    /\ PromptSent
    /\ Cardinality(Asking(QMood)) = 1
    /\ prompt.mood = "tired"
    /\ Cardinality(Asking(QConfidence)) = 1
    /\ qa_pairs[Min(Asking(QConfidence))].answer.text = "Yes"
    /\ prompt.has_confidence

(***************************************************************************)
(* C24: calculate_phase is a function of its facts and of the clock: the   *)
(* call made again in the state the first call left, with the same facts   *)
(* and the same clock readings, returns the same has_data, phase and       *)
(* message.                                                                *)
(***************************************************************************)
CalledAgain == CalculatePhase(qa_pairs, CallClock)

DayRange(phase, L) ==
    CASE phase = "menstrual" -> [from |-> 0, to |-> L]
      [] phase = "follicular" -> [from |-> L, to |-> L + (14 - L)]
      [] phase = "ovulation" -> [from |-> L + (14 - L), to |-> L + (14 - L) + 3]
      [] phase = "luteal" -> [from |-> L + (14 - L) + 3, to |-> 28]

InRange(d, phase, L) == DayRange(phase, L).from <= d /\ d < DayRange(phase, L).to

C26_RangesPartitionCycle ==
    CallDone =>
        \A k \in DOMAIN phase_call.frames :
            LET f == phase_call.frames[k]
                L == f.period_length
            IN  f.line \in {83, 98} =>
                  /\ L \in {4, 5, 6, 8, 10}
                  /\ 14 - L >= 0
                  /\ \A p \in Phases : DayRange(p, L).from <= DayRange(p, L).to
                  /\ \A d \in 0..27 :
                        /\ Cardinality({p \in Phases : InRange(d, p, L)}) = 1
                        /\ InRange(d, PhaseBranch(d, L), L)
                  /\ (f.line = 98 /\ f.days_since_period \in 0..27) =>
                        InRange(f.days_since_period, Resp.phase, L)

C26_Witness ==
    /\ CallDone
    /\ Len(phase_call.frames) = 1
    /\ phase_call.frames[1].period_length = 10
    /\ phase_call.frames[1].days_since_period = 10
    /\ Resp.phase = "follicular"

(***************************************************************************)
(* C27: calculate_phase returns on every input; with the clock fixed, a    *)
(* call with days_since >= 28 makes exactly one recursive call, in which   *)
(* days_since is the original days_since mod 28, in 0..27, and which       *)
(* returns a phase: the recursion is one call deep at most.                *)
(***************************************************************************)
C27_OneRecursiveCall ==
    (CallDone /\ ClockFixed) =>
        /\ Len(phase_call.frames) \in {1, 2}
        /\ phase_call.frames[1].line = 83 <=> Len(phase_call.frames) = 2
        /\ phase_call.frames[1].line = 83 =>
              phase_call.frames[1].days_since_period >= 28
        /\ (phase_call.frames[1].line = 98) =>
              phase_call.frames[1].days_since_period < 28
        /\ Len(phase_call.frames) = 2 =>
              /\ phase_call.frames[2].line = 98
              /\ phase_call.frames[2].days_since_period =
                    phase_call.frames[1].days_since_period % 28
              /\ phase_call.frames[2].days_since_period \in 0..27
              /\ Resp.has_data
              /\ Resp.phase \in Phases

C27_Witness ==
    /\ CallDone /\ ClockFixed
    /\ Len(phase_call.frames) = 2
    /\ phase_call.frames[1].days_since_period = 56
    /\ phase_call.frames[2].days_since_period = 0
    /\ Resp.phase = "menstrual"

(***************************************************************************)
(* C29: a last-period date after the current day, with the duration fact   *)
(* provided, is no error: days_since is negative and the result is         *)
(* has_data = true with phase menstrual, whatever the period length.       *)
(***************************************************************************)
C29_FutureDateIsMenstrual ==
    (CallDone /\ DatedFacts /\ DaysAgo(LastAnswer(qa_pairs, QDate)) < 0) =>
        /\ Resp.raised = None
        /\ Resp.has_data
        /\ Resp.phase = "menstrual"
        /\ Resp.message = None
        /\ Len(phase_call.frames) = 1
        /\ phase_call.frames[1].days_since_period < 0

C29_Witness ==
    /\ CallDone /\ DatedFacts
    /\ DaysAgo(LastAnswer(qa_pairs, QDate)) = -2
    /\ LastAnswer(qa_pairs, QDuration).text = "10+"
    /\ phase_call.frames[1].days_since_period = -2
    /\ Resp.has_data
    /\ Resp.phase = "menstrual"

(***************************************************************************)
(* C30: the required facts are looked for before the date is parsed: with  *)
(* a date provided that does not parse and no duration provided (absent,   *)
(* or with an empty answer) the message is the missing-duration one; the   *)
(* invalid-date message is given only when both facts are provided.        *)
(***************************************************************************)
C30_PresenceBeforeParsing ==
    CallDone =>
        /\ (/\ Provided(QDate)
            /\ \E i \in DateIndexes : ~RealDay(qa_pairs[i].answer)
            /\ ~Provided(QDuration)) =>
              /\ ~Resp.has_data
              /\ Resp.message = DurationMissingMessage
        /\ Resp.message = InvalidDateMessage =>
              /\ Provided(QDate)
              /\ Provided(QDuration)
              /\ \E i \in DateIndexes : ~RealDay(qa_pairs[i].answer)

C30_Witness ==
    /\ CallDone
    /\ Len(qa_pairs) = 2
    /\ qa_pairs[1] = QAPair(QDate, Text("Feb 2024"))
    /\ qa_pairs[2] = QAPair(QDuration, Text(""))
    /\ Resp.message = DurationMissingMessage
    /\ ~Resp.has_data

(***************************************************************************)
(* C28: when the requests on two connections have both been answered 200,  *)
(* the stored event list holds the events both created and every event     *)
(* either of them read: no accepted event is lost.                         *)
(***************************************************************************)
Stored(event) == \E i \in DOMAIN user_doc.events : user_doc.events[i] = event

C28_AsClaimed ==
    \A c \in Connections : \A d \in Connections \ {c} :
        (Accepted(c) /\ Accepted(d)) =>
            /\ Stored(accepts[c].new_event)
            /\ Stored(accepts[d].new_event)
            /\ \A i \in DOMAIN accepts[c].user_events :
                  Stored(accepts[c].user_events[i])
            /\ \A i \in DOMAIN accepts[d].user_events :
                  Stored(accepts[d].user_events[i])

(***************************************************************************)
(* C25: requests of different users served at the same time share no       *)
(* state: a step of one request changes nothing of another's, and what a   *)
(* request sends and returns is what calculate_phase and the generator     *)
(* give on its own user's facts, its own readings of the clock and the     *)
(* answer its own test_completion call got.  The ids of suggested events   *)
(* are random in any run; those of different requests never coincide.      *)
(***************************************************************************)
WithoutIds(b) ==
    IF b.kind # "SuggestedEvents" THEN b
    ELSE [b EXCEPT !.events =
             [i \in DOMAIN b.events |->
                 [b.events[i] EXCEPT !.id = [prefix |-> "sugg_", uuid |-> 0]]]]

IdsOf(b) ==
    IF b.kind # "SuggestedEvents" THEN {}
    ELSE {b.events[i].id : i \in DOMAIN b.events}

\* The request of session s run alone: the phase call on its facts and clock
\* readings, then the generator on its collaborator's answer.
Alone(s) ==
    LET call == CalculatePhase(s.qa_pairs,
                               IF s.reads = <<>> THEN <<ClockStart>> ELSE s.reads)
        resp == call.resp
    IN  IF s.endpoint = "phase"
        THEN [pc |-> "done", prompt |-> NoPrompt, error |-> NoError,
              status |-> 200, body |-> PhaseBody(resp)]
        ELSE IF ~resp.has_data
        THEN [pc |-> "done", prompt |-> NoPrompt,
              error |-> IF s.endpoint = "recommendations"
                        THEN InsufficientRecommendations
                        ELSE InsufficientSuggestions,
              status |-> 400, body |-> NoBody]
        ELSE LET sent == IF s.endpoint = "recommendations"
                         THEN RecommendationsPrompt(s.qa_pairs, resp)
                         ELSE EventsPrompt(s.qa_pairs, resp)
             IN  IF s.reply = NoReply
                 THEN [pc |-> "await_openai", prompt |-> sent,
                       error |-> NoError, status |-> 0, body |-> NoBody]
                 ELSE LET out == IF s.endpoint = "recommendations"
                                 THEN RecommendationsOutcome(resp, s.reply)
                                 ELSE EventsOutcome(resp, s.reply, 0)
                      IN  [pc |-> "done", prompt |-> sent, error |-> out.error,
                           status |-> RouteStatus(out.error),
                           body |-> WithoutIds(out.value)]

AsAlone(u) ==
    LET s == sessions[u] IN
    s.endpoint # None =>
        /\ s.pc = Alone(s).pc
        /\ s.prompt = Alone(s).prompt
        /\ s.svc_error = Alone(s).error
        /\ s.http_status = Alone(s).status
        /\ WithoutIds(s.body) = Alone(s).body

OneRequestSteps ==
    \A u \in Users :
        sessions'[u] # sessions[u] =>
            \A v \in Users \ {u} : sessions'[v] = sessions[v]

C25_Independent ==
    /\ [](\A u \in Users : AsAlone(u))
    /\ [](\A u \in Users : \A v \in Users \ {u} :
             IdsOf(sessions[u].body) \cap IdsOf(sessions[v].body) = {})
    /\ [][OneRequestSteps]_vars

\* bea's request began first and still awaits its answer; ana's, begun
\* later, has returned in the meantime, each with its own user's phase.
C25_Witness ==
    /\ sessions["bea"].pc = "await_openai"
    /\ sessions["bea"].endpoint = "suggested-events"
    /\ sessions["bea"].prompt.phase = "ovulation"
    /\ sessions["ana"].pc = "done"
    /\ sessions["ana"].endpoint = "recommendations"
    /\ sessions["ana"].body.kind = "MenstrualRecommendations"
    /\ sessions["ana"].body.phase = "menstrual"
    /\ sessions["bea"].reads[1] < sessions["ana"].reads[1]

====
